---------------------------- MODULE Spec2Model ----------------------------
(***************************************************************************)
(* Model of openregistry.convoy.utils: the change-feed consumer            *)
(* (continuous_changes_feed), the filter-document installer                *)
(* (push_filter_doc), the error classifier (retry_on_error), the client    *)
(* bootstrap (init_clients), the auctions mapping with its self-check      *)
(* (AuctionsMapping, prepare_auctions_mapping) and the database bootstrap  *)
(* (prepare_couchdb).  Each component has its own specification (SpecFeed, *)
(* SpecFeedFair, SpecFilter, SpecRetry, SpecBoot, SpecMapping, SpecCouch); *)
(* the variables of the other components stay at their initial values,     *)
(* but in SpecBoot, where init_clients calls prepare_couchdb and           *)
(* prepare_auctions_mapping and their steps act on the server and on the   *)
(* mapping backend.                                                        *)
(***************************************************************************)
EXTENDS Naturals, Integers, Sequences, FiniteSets, TLC

VARIABLES
    \* ---- document store change log and the feed generator ----
    log,            \* the store's change log; position i is sequence number i
    kill_now,       \* killer.kill_now, set asynchronously by a signal handler
    last_seq_id,    \* the generator's cursor
    data,           \* response of the latest db.changes call
    idx,            \* position of the for loop inside data.results
    pc,             \* where the generator stands
    yielded,        \* items handed to the caller in this run, in order
    fetched,        \* docs of every batch returned in this run, in order
    polled,         \* whether this run has issued a poll
    since_used,     \* the since argument of the latest poll
    ret_seq,        \* the last_seq of the latest poll response
    slept,          \* the sleeps since the latest poll, by duration
    kill_pos,       \* where the generator stood when kill_now was set
    last_marked,    \* whether the latest yielded id was marked present then
    run,            \* number of the current run (process lifetime)
    auctions_mapping,  \* the AuctionsMapping: id marked present -> value
    failed,         \* whether db.changes has raised in this run
    waiting,        \* whether the caller is inside a request for an item
    kill_polls,     \* polls issued since kill_now was set, up to MaxCount
    kill_yields,    \* items yielded since kill_now was set, up to Limit + 1
    \* ---- push_filter_doc ----
    store,          \* the document store: document id -> document or Absent
    last_call,      \* the latest call of push_filter_doc
    call_hist,      \* how the latest call relates to the one before it
    \* ---- retry_on_error ----
    exception,      \* the exception handed to retry_on_error
    retry_result,   \* <<>> before the call, <<returned value>> after it
    \* ---- init_clients ----
    config,         \* the sections of the configuration that are set
    failing,        \* the resources whose construction raises
    boot_pc,        \* where init_clients stands
    todo,           \* client keys the for loop has not visited yet
    clients_from_config,  \* key -> what the mapping holds for it
    exceptions,     \* the exceptions list
    checks,         \* the LOGGER.check reports, in order
    boot_outcome,   \* how init_clients ended
    \* ---- AuctionsMapping and prepare_auctions_mapping ----
    backend,        \* "redis" when the config has a host, else "lazydb"
    fault,          \* how the backend misbehaves, "none" when it works
    check,          \* the check argument of prepare_auctions_mapping
    kv,             \* what the backend holds: key -> stored value
    kv0,            \* what it held when prepare_auctions_mapping was called
    expect,         \* key -> value as handed to put, for the keys not deleted
    am_pc,          \* where prepare_auctions_mapping stands
    am_outcome,     \* how prepare_auctions_mapping ended
    \* ---- prepare_couchdb ----
    server,         \* names of the databases the CouchDB server holds
    db_name,        \* the db_name argument
    couch_fault,    \* the request of prepare_couchdb that fails, and how
    couch_pc,       \* where prepare_couchdb stands
    couch_outcome   \* how prepare_couchdb ended

feedVars == <<log, kill_now, last_seq_id, data, idx, pc, yielded, fetched,
              polled, since_used, ret_seq, slept, kill_pos, last_marked,
              run, auctions_mapping, failed, waiting, kill_polls,
              kill_yields>>

filterVars == <<store, last_call, call_hist>>

retryVars == <<exception, retry_result>>

bootVars == <<config, failing, boot_pc, todo, clients_from_config, exceptions,
              checks, boot_outcome>>

mappingVars == <<backend, fault, check, kv, kv0, expect, am_pc, am_outcome>>

couchVars == <<server, db_name, couch_fault, couch_pc, couch_outcome>>

vars == <<feedVars, filterVars, retryVars, bootVars, mappingVars, couchVars>>

notFeed == <<filterVars, retryVars, bootVars, mappingVars, couchVars>>
notFilter == <<feedVars, retryVars, bootVars, mappingVars, couchVars>>
notRetry == <<feedVars, filterVars, bootVars, mappingVars, couchVars>>
notBoot == <<feedVars, filterVars, retryVars, mappingVars, couchVars>>
notMapping == <<feedVars, filterVars, retryVars, bootVars, couchVars>>
notCouch == <<feedVars, filterVars, retryVars, bootVars, mappingVars>>

-----------------------------------------------------------------------------
(* Bounds of the model *)

MaxLog == 3
MaxRuns == 2
Limit == 2
MaxTypes == 1
MaxStatus == 510
MaxCount == 2

(* Program constants *)

Timeout == 10
CONTINUOUS_CHANGES_FEED_FLAG == TRUE

-----------------------------------------------------------------------------
(* Python mappings *)

None == "None"

EmptyDict == [k \in {} |-> None]

\* dict.get(key, default)
Get(d, key, default) == IF key \in DOMAIN d THEN d[key] ELSE default

\* d[key] = value
SetItem(d, key, value) ==
    [k \in DOMAIN d \cup {key} |-> IF k = key THEN value ELSE d[k]]

-----------------------------------------------------------------------------
(* AuctionsMapping: the operations the feed's consumer uses *)

\* A counter of the history that stops counting at its cap.
Inc(n, cap) == IF n < cap THEN n + 1 ELSE n

\* AuctionsMapping.has(key)
has(m, key) == key \in DOMAIN m

\* AuctionsMapping.put(key, value)
put(m, key, value) == SetItem(m, key, value)

-----------------------------------------------------------------------------
(* The document store's changes query *)

DocIds == {"a1", "a2"}
NoDoc == "filtered"
NoKill == [pc |-> "none", idx |-> 0]

\* A change either carries a document that passes the 'convoy_feed' filter
\* or is a change the filter drops (it still consumes a sequence number).
Changes == DocIds \cup {NoDoc}

Doc(id) == [id |-> id, doc_type |-> "Auction"]

\* Sequence numbers after `since` whose change passes the filter.
Passing(l, since) == {i \in (since + 1)..Len(l) : l[i] # NoDoc}

RECURSIVE RowsFrom(_, _, _)
RowsFrom(l, since, n) ==
    IF n = 0 \/ Passing(l, since) = {}
    THEN <<>>
    ELSE LET i == CHOOSE j \in Passing(l, since) :
                        \A k \in Passing(l, since) : j <= k
         IN  <<[seq |-> i, id |-> l[i], doc |-> Doc(l[i])]>>
             \o RowsFrom(l, i, n - 1)

\* db.changes(include_docs=True, since=since, limit=limit, filter=...):
\* at most `limit` passing rows after `since`, in sequence order; last_seq is
\* the sequence of the last row when the limit cut the response, else the
\* store's current update sequence.
db_changes(l, since, limit) ==
    LET rows == RowsFrom(l, since, limit)
    IN  [results  |-> rows,
         last_seq |-> IF Len(rows) = limit /\ limit > 0
                      THEN rows[Len(rows)].seq
                      ELSE Len(l)]

\* Munch(row['doc']): a mapping with the same keys and values.
Munch(d) == [k \in DOMAIN d |-> d[k]]

RECURSIVE DocsOf(_)
DocsOf(rows) ==
    IF rows = <<>> THEN <<>>
    ELSE <<Munch(rows[1].doc)>> \o DocsOf(Tail(rows))

EmptyData == [results |-> <<>>, last_seq |-> 0]

-----------------------------------------------------------------------------
(* continuous_changes_feed *)

FeedInit ==
    /\ log = <<>>
    /\ kill_now = FALSE
    /\ last_seq_id = 0
    /\ data = EmptyData
    /\ idx = 0
    /\ pc = "start"
    /\ yielded = <<>>
    /\ fetched = <<>>
    /\ polled = FALSE
    /\ since_used = 0
    /\ ret_seq = 0
    /\ slept = <<>>
    /\ kill_pos = NoKill
    /\ last_marked = FALSE
    /\ run = 1
    /\ auctions_mapping = EmptyDict
    /\ failed = FALSE
    /\ waiting = FALSE
    /\ kill_polls = 0
    /\ kill_yields = 0

\* The caller asks for the next item: the generator body starts
\* (last_seq_id = 0) or resumes after the yield with the next row.
Request ==
    /\ UNCHANGED notFeed
    /\ waiting' = TRUE
    /\ UNCHANGED <<failed, kill_polls, kill_yields>>
    /\ pc \in {"start", "suspended"}
    /\ IF pc = "start"
       THEN /\ last_seq_id' = 0
            /\ pc' = "poll"
            /\ idx' = idx
       ELSE /\ last_seq_id' = last_seq_id
            /\ pc' = "for"
            /\ idx' = idx + 1
    /\ UNCHANGED <<log, kill_now, data, yielded, fetched, polled, since_used,
                   ret_seq, slept, kill_pos, last_marked, run,
                   auctions_mapping>>

\* A cursor rule that advances only past a batch that held documents.
NextCursorKeepsOnEmpty(cur, d) ==
    IF Len(d.results) # 0 THEN d.last_seq ELSE cur

\* last_seq_id = data['last_seq']
NextCursor(cur, d) == d.last_seq

\* A dispatch test that takes a one-row batch for an empty one.
BatchNonEmptyOffByOne(d) == Len(d.results) > 1

\* if len(data['results']) != 0:
BatchNonEmpty(d) == Len(d.results) # 0

\* while CONTINUOUS_CHANGES_FEED_FLAG: data = db.changes(...);
\* last_seq_id = data['last_seq']; if len(data['results']) != 0: ... else: ...
Poll ==
    /\ UNCHANGED notFeed
    /\ kill_polls' = IF kill_now /\ CONTINUOUS_CHANGES_FEED_FLAG
                     THEN Inc(kill_polls, MaxCount) ELSE kill_polls
    /\ waiting' = CONTINUOUS_CHANGES_FEED_FLAG
    /\ UNCHANGED <<failed, kill_yields>>
    /\ pc = "poll"
    /\ IF CONTINUOUS_CHANGES_FEED_FLAG
       THEN LET d == db_changes(log, last_seq_id, Limit)
            IN  /\ data' = d
                /\ last_seq_id' = NextCursor(last_seq_id, d)
                /\ idx' = 1
                /\ pc' = IF BatchNonEmpty(d) THEN "for" ELSE "idle_check"
                /\ fetched' = fetched \o DocsOf(d.results)
                /\ polled' = TRUE
                /\ since_used' = last_seq_id
                /\ ret_seq' = d.last_seq
                /\ slept' = <<>>
       ELSE /\ pc' = "done"
            /\ UNCHANGED <<data, last_seq_id, idx, fetched, polled,
                           since_used, ret_seq, slept>>
    /\ UNCHANGED <<log, kill_now, yielded, kill_pos, last_marked, run,
                   auctions_mapping>>

\* A poll that meets a failure of db.changes with a pause and a retry.
PollFailRetries ==
    /\ UNCHANGED notFeed
    /\ failed' = TRUE
    /\ kill_polls' = IF kill_now THEN Inc(kill_polls, MaxCount)
                     ELSE kill_polls
    /\ pc = "poll"
    /\ CONTINUOUS_CHANGES_FEED_FLAG
    /\ pc' = "sleep"
    /\ UNCHANGED <<log, kill_now, last_seq_id, data, idx, yielded, fetched,
                   polled, since_used, ret_seq, slept, kill_pos, last_marked,
                   run, auctions_mapping, waiting, kill_yields>>

\* db.changes raises: nothing in the generator catches it.
PollFail ==
    /\ UNCHANGED notFeed
    /\ failed' = TRUE
    /\ waiting' = FALSE
    /\ kill_polls' = IF kill_now THEN Inc(kill_polls, MaxCount)
                     ELSE kill_polls
    /\ UNCHANGED kill_yields
    /\ pc = "poll"
    /\ CONTINUOUS_CHANGES_FEED_FLAG
    /\ pc' = "error"
    /\ UNCHANGED <<log, kill_now, last_seq_id, data, idx, yielded, fetched,
                   polled, since_used, ret_seq, slept, kill_pos, last_marked,
                   run, auctions_mapping>>

\* A loop body that consults the AuctionsMapping and skips a marked row.
YieldUnlessMarked ==
    /\ UNCHANGED notFeed
    /\ pc = "for"
    /\ idx <= Len(data.results)
    /\ waiting' = has(auctions_mapping, data.results[idx].id)
    /\ kill_yields' = IF kill_now /\ ~waiting'
                      THEN Inc(kill_yields, Limit + 1) ELSE kill_yields
    /\ UNCHANGED <<failed, kill_polls>>
    /\ IF has(auctions_mapping, data.results[idx].id)
       THEN /\ idx' = idx + 1
            /\ UNCHANGED <<yielded, pc, last_marked>>
       ELSE /\ yielded' = Append(yielded, Munch(data.results[idx].doc))
            /\ last_marked' = FALSE
            /\ pc' = "suspended"
            /\ idx' = idx
    /\ UNCHANGED <<log, kill_now, last_seq_id, data, fetched, polled,
                   since_used, ret_seq, slept, kill_pos, run,
                   auctions_mapping>>

\* A loop body that honours the signal before each row.
YieldUnlessKilled ==
    /\ UNCHANGED notFeed
    /\ waiting' = FALSE
    /\ UNCHANGED <<failed, kill_polls, kill_yields>>
    /\ pc = "for"
    /\ idx <= Len(data.results)
    /\ IF kill_now
       THEN /\ pc' = "done"
            /\ UNCHANGED <<yielded, last_marked>>
       ELSE /\ yielded' = Append(yielded, Munch(data.results[idx].doc))
            /\ last_marked' = (has(auctions_mapping, data.results[idx].id))
            /\ pc' = "suspended"
    /\ UNCHANGED <<log, kill_now, last_seq_id, data, idx, fetched, polled,
                   since_used, ret_seq, slept, kill_pos, run,
                   auctions_mapping>>

\* A loop body that goes on to the next poll, unasked, once it has handed
\* over the last row of the batch.
YieldPrefetch ==
    /\ UNCHANGED notFeed
    /\ waiting' = FALSE
    /\ kill_yields' = IF kill_now THEN Inc(kill_yields, Limit + 1)
                      ELSE kill_yields
    /\ pc = "for"
    /\ idx <= Len(data.results)
    /\ yielded' = Append(yielded, Munch(data.results[idx].doc))
    /\ last_marked' = (has(auctions_mapping, data.results[idx].id))
    /\ pc' = IF idx = Len(data.results) THEN "poll" ELSE "suspended"
    /\ UNCHANGED <<log, kill_now, last_seq_id, data, idx, fetched, polled,
                   since_used, ret_seq, slept, kill_pos, run,
                   auctions_mapping, failed, kill_polls>>

\* for row in data['results']: item = Munch(row['doc']); yield item
Yield ==
    /\ UNCHANGED notFeed
    /\ waiting' = FALSE
    /\ kill_yields' = IF kill_now THEN Inc(kill_yields, Limit + 1)
                      ELSE kill_yields
    /\ UNCHANGED <<failed, kill_polls>>
    /\ pc = "for"
    /\ idx <= Len(data.results)
    /\ yielded' = Append(yielded, Munch(data.results[idx].doc))
    /\ last_marked' = (has(auctions_mapping, data.results[idx].id))
    /\ pc' = "suspended"
    /\ UNCHANGED <<log, kill_now, last_seq_id, data, idx, fetched, polled,
                   since_used, ret_seq, slept, kill_pos, run,
                   auctions_mapping>>

\* A check after the batch that ignores the signal.
AfterBatchIgnoresKill(k) == "poll"

\* A loop that pauses after every batch, empty or not.
AfterBatchSleeps(k) == IF k THEN "done" ELSE "sleep"

\* if killer.kill_now: break   (after the for loop)
AfterBatch(k) == IF k THEN "done" ELSE "poll"

\* The for loop is exhausted: if killer.kill_now: break
BatchCheck ==
    /\ UNCHANGED notFeed
    /\ waiting' = (AfterBatch(kill_now) # "done")
    /\ UNCHANGED <<failed, kill_polls, kill_yields>>
    /\ pc = "for"
    /\ idx > Len(data.results)
    /\ pc' = AfterBatch(kill_now)
    /\ UNCHANGED <<log, kill_now, last_seq_id, data, idx, yielded, fetched,
                   polled, since_used, ret_seq, slept, kill_pos, last_marked,
                   run, auctions_mapping>>

\* An idle branch that sleeps before it looks at the signal.
AfterEmptySleepsFirst(k) == "sleep"

\* if killer.kill_now: break   (empty batch), else sleep
AfterEmpty(k) == IF k THEN "done" ELSE "sleep"

\* Empty batch: if killer.kill_now: break
IdleCheck ==
    /\ UNCHANGED notFeed
    /\ waiting' = (AfterEmpty(kill_now) # "done")
    /\ UNCHANGED <<failed, kill_polls, kill_yields>>
    /\ pc = "idle_check"
    /\ pc' = AfterEmpty(kill_now)
    /\ UNCHANGED <<log, kill_now, last_seq_id, data, idx, yielded, fetched,
                   polled, since_used, ret_seq, slept, kill_pos, last_marked,
                   run, auctions_mapping>>

\* A sleep followed by a second look at the signal.
SleepThenCheck ==
    /\ UNCHANGED notFeed
    /\ pc = "sleep"
    /\ slept' = Append(slept, Timeout)
    /\ pc' = IF kill_now THEN "done" ELSE "poll"
    /\ waiting' = ~kill_now
    /\ UNCHANGED <<log, kill_now, last_seq_id, data, idx, yielded, fetched,
                   polled, since_used, ret_seq, kill_pos, last_marked, run,
                   auctions_mapping, failed, kill_polls, kill_yields>>

\* sleep(timeout), then back to the top of the while loop
Sleep ==
    /\ UNCHANGED notFeed
    /\ UNCHANGED <<failed, waiting, kill_polls, kill_yields>>
    /\ pc = "sleep"
    /\ slept' = Append(slept, Timeout)
    /\ pc' = "poll"
    /\ UNCHANGED <<log, kill_now, last_seq_id, data, idx, yielded, fetched,
                   polled, since_used, ret_seq, kill_pos, last_marked, run,
                   auctions_mapping>>

\* The signal handler sets killer.kill_now at any moment of a run.
Kill ==
    /\ UNCHANGED notFeed
    /\ UNCHANGED <<failed, waiting, kill_polls, kill_yields>>
    /\ ~kill_now
    /\ pc \notin {"done", "error"}
    /\ kill_now' = TRUE
    /\ kill_pos' = [pc |-> pc, idx |-> idx]
    /\ UNCHANGED <<log, last_seq_id, data, idx, pc, yielded, fetched, polled,
                   since_used, ret_seq, slept, last_marked, run,
                   auctions_mapping>>

\* The document store records a change.
StoreChange ==
    /\ UNCHANGED notFeed
    /\ UNCHANGED <<failed, waiting, kill_polls, kill_yields>>
    /\ Len(log) < MaxLog
    /\ \E c \in Changes : log' = Append(log, c)
    /\ UNCHANGED <<kill_now, last_seq_id, data, idx, pc, yielded, fetched,
                   polled, since_used, ret_seq, slept, kill_pos, last_marked,
                   run, auctions_mapping>>

\* AuctionsMapping.put(key, value): downstream processing marks a delivered
\* document as present.
MappingPut ==
    /\ UNCHANGED notFeed
    /\ UNCHANGED <<failed, waiting, kill_polls, kill_yields>>
    /\ \E i \in 1..Len(yielded) :
          /\ ~has(auctions_mapping, yielded[i].id)
          /\ auctions_mapping' = put(auctions_mapping, yielded[i].id, "1")
    /\ UNCHANGED <<log, kill_now, last_seq_id, data, idx, pc, yielded,
                   fetched, polled, since_used, ret_seq, slept, kill_pos,
                   last_marked, run>>

\* The process ends and a new one calls continuous_changes_feed again: only
\* the store and the AuctionsMapping survive.
Restart ==
    /\ UNCHANGED notFeed
    /\ failed' = FALSE
    /\ waiting' = FALSE
    /\ kill_polls' = 0
    /\ kill_yields' = 0
    /\ pc \in {"done", "error"}
    /\ run < MaxRuns
    /\ run' = run + 1
    /\ kill_now' = FALSE
    /\ last_seq_id' = 0
    /\ data' = EmptyData
    /\ idx' = 0
    /\ pc' = "start"
    /\ yielded' = <<>>
    /\ fetched' = <<>>
    /\ polled' = FALSE
    /\ since_used' = 0
    /\ ret_seq' = 0
    /\ slept' = <<>>
    /\ kill_pos' = NoKill
    /\ last_marked' = FALSE
    /\ UNCHANGED <<log, auctions_mapping>>

FeedNext ==
    \/ Request
    \/ Poll
    \/ PollFail
    \/ Yield
    \/ BatchCheck
    \/ IdleCheck
    \/ Sleep
    \/ Kill
    \/ StoreChange
    \/ MappingPut
    \/ Restart

\* The steps of the generator and of the caller that drives it.
GeneratorStep ==
    \/ Request
    \/ Poll
    \/ PollFail
    \/ Yield
    \/ BatchCheck
    \/ IdleCheck
    \/ Sleep

\* One run of the feed with its surroundings: the signal and the store.
RunNext ==
    \/ GeneratorStep
    \/ Kill
    \/ StoreChange

-----------------------------------------------------------------------------
(* push_filter_doc *)

FILTER_DOC_ID == "_design/auction_filters"

\* FILTER_CONVOY_FEED_DOC, cut at its two %s places.
FILTER_CONVOY_FEED_DOC ==
    <<"\nfunction(doc, req) {\n    if (doc.doc_type == 'Auction') {\n    \n        // basic lots auctions\n        if (",
      ".indexOf(doc.procurementMethodType) >= 0) {\n    \n            if (doc.status == 'pending.verification') {\n                return true;\n            } else if (['complete', 'cancelled', 'unsuccessful'].indexOf(doc.status) >= 0 && doc.merchandisingObject) {\n                return true;\n            };\n            \n        // loki lots auctions\n        } else if (",
      ".indexOf(doc.procurementMethodType) >= 0) {\n        \n            if (['complete', 'cancelled', 'unsuccessful'].indexOf(doc.status) >= 0  && doc.merchandisingObject) {\n                return true;\n            };\n        \n        };\n        \n    }\n    return false;\n}\n">>

Absent == [absent |-> TRUE]
OtherDocId == "auction_1"
OtherFilter == "function(doc, req) { return true; }"
StaleFeed == "function(doc, req) { return false; }"

BasicTypeNames == {"dgfOtherAssets", "dgfFinancialAssets"}
LokiTypeNames == {"sellout.english"}

RECURSIVE SeqsUpTo(_, _)
SeqsUpTo(S, n) ==
    IF n = 0 THEN {<<>>}
    ELSE SeqsUpTo(S, n - 1)
         \cup {Append(q, x) : q \in SeqsUpTo(S, n - 1), x \in S}

\* The auctions_types mappings: 'basic' and 'loki' are each present or not.
AuctionsTypes ==
    LET B == SeqsUpTo(BasicTypeNames, MaxTypes)
        L == SeqsUpTo(LokiTypeNames, MaxTypes)
    IN  {[basic |-> b, loki |-> l] : b \in B, l \in L}
        \cup {[basic |-> b] : b \in B}
        \cup {[loki |-> l] : l \in L}
        \cup {EmptyDict}

\* repr() of a string without quotes or escapes in it
ReprStr(x) == "'" \o x \o "'"

RECURSIVE ReprItems(_)
ReprItems(l) ==
    IF Len(l) = 0 THEN ""
    ELSE IF Len(l) = 1 THEN ReprStr(l[1])
    ELSE ReprStr(l[1]) \o ", " \o ReprItems(Tail(l))

\* '%s' % a list: its repr
ReprList(l) == "[" \o ReprItems(l) \o "]"

\* template % (a, b)
Format(t, a, b) == t[1] \o a \o t[2] \o b \o t[3]

\* A rendering that puts the basic list in both places.
RenderFilterBasicTwice(auctions_types) ==
    Format(FILTER_CONVOY_FEED_DOC,
           ReprList(Get(auctions_types, "basic", <<>>)),
           ReprList(Get(auctions_types, "basic", <<>>)))

\* FILTER_CONVOY_FEED_DOC % (auctions_types.get('basic', []),
\*                           auctions_types.get('loki', []))
RenderFilter(auctions_types) ==
    Format(FILTER_CONVOY_FEED_DOC,
           ReprList(Get(auctions_types, "basic", <<>>)),
           ReprList(Get(auctions_types, "loki", <<>>)))

\* db.get(id, default)
db_get(st, id, default) == IF st[id] = Absent THEN default ELSE st[id]

\* db.save(doc): the document is stored under its '_id'.
db_save(st, doc) == [st EXCEPT ![doc["_id"]] = doc]

\* bool(d) of a mapping
Truthy(d) == DOMAIN d # {}

\* A test that asks for a write whatever is stored.
NeedsSaveAlways(filters_doc, rendered) == Truthy(filters_doc)

\* filters_doc and filters_doc['filters'].get('convoy_feed') != rendered
NeedsSave(filters_doc, rendered) ==
    Truthy(filters_doc)
    /\ Get(filters_doc["filters"], "convoy_feed", None) # rendered

\* An update that writes a filters mapping holding 'convoy_feed' alone.
WithConvoyFeedOnly(filters_doc, rendered) ==
    SetItem(filters_doc, "filters", [convoy_feed |-> rendered])

\* filters_doc['filters']['convoy_feed'] = filter_convoy_feed_doc
WithConvoyFeed(filters_doc, rendered) ==
    SetItem(filters_doc, "filters",
            SetItem(filters_doc["filters"], "convoy_feed", rendered))

\* The 'convoy_feed' predicate stored in st, None when there is none.
StoredFeed(st) ==
    IF st[FILTER_DOC_ID] = Absent
       \/ "filters" \notin DOMAIN st[FILTER_DOC_ID]
    THEN None
    ELSE Get(st[FILTER_DOC_ID]["filters"], "convoy_feed", None)

NoCall == [outcome |-> "none"]
NoHist == [n |-> 0, same |-> FALSE, prev_saved |-> 0, prev_outcome |-> "none"]

\* The two lists a call renders.
EffectiveLists(auctions_types) ==
    <<Get(auctions_types, "basic", <<>>), Get(auctions_types, "loki", <<>>)>>

\* The filter documents a store may hold before the first call.
InitialFilterDocs ==
    LET feeds == {RenderFilter(t) : t \in AuctionsTypes} \cup {StaleFeed}
        maps  == {EmptyDict, [other_filter |-> OtherFilter]}
                 \cup {[convoy_feed |-> f] : f \in feeds}
                 \cup {[convoy_feed |-> f, other_filter |-> OtherFilter] :
                          f \in feeds}
    IN  {Absent}
        \cup {[_id |-> FILTER_DOC_ID, filters |-> m] : m \in maps}
        \cup {[_id |-> FILTER_DOC_ID, filters |-> m,
               language |-> "javascript"] : m \in maps}
        \cup {[_id |-> FILTER_DOC_ID, language |-> "javascript"]}

FilterIdle ==
    /\ store = [id \in {FILTER_DOC_ID, OtherDocId} |-> Absent]
    /\ last_call = NoCall
    /\ call_hist = NoHist

FilterInit ==
    /\ store \in {[id \in {FILTER_DOC_ID, OtherDocId} |->
                     IF id = FILTER_DOC_ID THEN f ELSE o] :
                  f \in InitialFilterDocs,
                  o \in {Absent, [_id |-> OtherDocId, doc_type |-> "Auction"]}}
    /\ last_call = NoCall
    /\ call_hist = NoHist

\* push_filter_doc(db, auctions_types), the whole call.
push_filter_doc(auctions_types) ==
    LET filter_convoy_feed_doc == RenderFilter(auctions_types)
        filters_doc == db_get(store, FILTER_DOC_ID,
                              [_id |-> FILTER_DOC_ID, filters |-> EmptyDict])
        call == [auctions_types |-> auctions_types,
                 before_feed |-> StoredFeed(store),
                 saved |-> <<>>,
                 outcome |-> "returned"]
    IN  /\ call_hist' =
               IF last_call = NoCall
               THEN [NoHist EXCEPT !.n = 1]
               ELSE [n |-> 2,
                     same |-> (EffectiveLists(last_call.auctions_types)
                               = EffectiveLists(auctions_types)),
                     prev_saved |-> Len(last_call.saved),
                     prev_outcome |-> last_call.outcome]
        /\ IF Truthy(filters_doc) /\ "filters" \notin DOMAIN filters_doc
           THEN \* filters_doc is truthy and filters_doc['filters'] raises
                \* KeyError; an empty filters_doc takes the else branch
                /\ store' = store
                /\ last_call' = [call EXCEPT !.outcome = "raised"]
           ELSE IF NeedsSave(filters_doc, filter_convoy_feed_doc)
           THEN LET doc == WithConvoyFeed(filters_doc,
                                          filter_convoy_feed_doc)
                IN  /\ store' = db_save(store, doc)
                    /\ last_call' = [call EXCEPT !.saved = <<doc>>]
           ELSE /\ store' = store
                /\ last_call' = call

PushFilterDoc ==
    /\ \E t \in AuctionsTypes : push_filter_doc(t)
    /\ UNCHANGED notFilter

FilterNext == PushFilterDoc

-----------------------------------------------------------------------------
(* retry_on_error *)

\* EXCEPTIONS = (Forbidden, RequestFailed, ResourceNotFound,
\*               UnprocessableEntity, PreconditionFailed, Conflict)
EXCEPTIONS ==
    {"Forbidden", "RequestFailed", "ResourceNotFound", "UnprocessableEntity",
     "PreconditionFailed", "Conflict"}

\* Exception classes outside the family.
OtherExceptions == {"ConfigError", "socket.error", "KeyError"}

StatusCodes == 400..MaxStatus

\* isinstance(exception, EXCEPTIONS)
isinstance(e, classes) == e.cls \in classes

\* A classifier that forgets 429.
retry_on_error_without_429(e) ==
    isinstance(e, EXCEPTIONS)
    /\ (e.status_code >= 500 \/ e.status_code \in {409, 412})

\* retry_on_error(exception)
retry_on_error(e) ==
    IF isinstance(e, EXCEPTIONS)
       /\ (e.status_code >= 500 \/ e.status_code \in {409, 412, 429})
    THEN TRUE
    ELSE FALSE

RetryIdle ==
    /\ exception = [cls |-> "Conflict", status_code |-> 409]
    /\ retry_result = <<>>

RetryInit ==
    /\ exception \in [cls : EXCEPTIONS \cup OtherExceptions,
                      status_code : StatusCodes]
    /\ retry_result = <<>>

\* The retry policy asks the classifier about the exception it caught.
Classify ==
    /\ retry_result = <<>>
    /\ retry_result' = <<retry_on_error(exception)>>
    /\ UNCHANGED exception
    /\ UNCHANGED notRetry

RetryNext == Classify

-----------------------------------------------------------------------------
(* AuctionsMapping over its two backends, and prepare_auctions_mapping,     *)
(* called on its own (boot_pc = "idle") or by init_clients                 *)

\* Python values, by type and printed form: the markers a caller may put.
PyStr(text) == [type |-> "str", text |-> text]
PyInt(text) == [type |-> "int", text |-> text]
PyBool(text) == [type |-> "bool", text |-> text]
PyNone == [type |-> "NoneType", text |-> "None"]

Keys == {"test", "a1"}
Values == {PyStr("1"), PyInt("1"), PyBool("True")}
Backends == {"redis", "lazydb"}
Faults == {"none", "unreachable", "put_lost", "get_wrong", "delete_lost"}

Without(m, key) == [k \in DOMAIN m \ {key} |-> m[k]]

(* The two backends are libraries: a working one is taken to keep the      *)
(* store's contract, put(id, value), has(id) -> bool, get(id) -> value or  *)
(* absent, delete(id), under the method names AuctionsMapping binds.       *)

\* StrictRedis: set, exists, get, delete
redis_set(m, key, value) == SetItem(m, key, value)
redis_exists(m, key) == key \in DOMAIN m
redis_get(m, key) == Get(m, key, PyNone)
redis_delete(m, key) == Without(m, key)

\* LazyDB: put, has, get, delete
lazydb_put(m, key, value) == SetItem(m, key, value)
lazydb_has(m, key) == key \in DOMAIN m
lazydb_get(m, key) == Get(m, key, PyNone)
lazydb_delete(m, key) == Without(m, key)

\* self._set_value: self.db.set with a host in the config, else self.db.put
set_value(b, m, key, value) ==
    IF b = "redis" THEN redis_set(m, key, value)
    ELSE lazydb_put(m, key, value)

\* AuctionsMapping.has: self._has_value(key), which is self.db.exists with
\* a host in the config, else self.db.has; the answer is passed on as it is
has_value(b, m, key) ==
    IF b = "redis" THEN redis_exists(m, key) ELSE lazydb_has(m, key)

\* AuctionsMapping.get: return self.db.get(key)
mapping_get(b, m, key) ==
    IF b = "redis" THEN redis_get(m, key) ELSE lazydb_get(m, key)

\* A delete that never reaches the backend.
mapping_delete_unsent(b, m, key) == m

\* AuctionsMapping.delete: return self.db.delete(key)
mapping_delete(b, m, key) ==
    IF b = "redis" THEN redis_delete(m, key) ELSE lazydb_delete(m, key)

NoEnd == [kind |-> "none", exc |-> "none"]
Raised(exc) == [kind |-> "raised", exc |-> exc]
Returned == [kind |-> "returned", exc |-> "none"]

\* What the stores can hold beforehand: strings under some of the keys.
InitialKv == UNION {[S -> {PyStr("1")}] : S \in SUBSET Keys}

MappingIdle ==
    /\ backend = "lazydb"
    /\ fault = "none"
    /\ check = FALSE
    /\ kv = EmptyDict
    /\ kv0 = EmptyDict
    /\ expect = EmptyDict
    /\ am_pc = "idle"
    /\ am_outcome = NoEnd

MappingInit ==
    /\ backend \in Backends
    /\ fault \in Faults
    /\ check \in BOOLEAN
    /\ kv \in InitialKv
    /\ kv0 = kv
    /\ expect = kv
    /\ am_pc = "construct"
    /\ am_outcome = NoEnd

\* db = AuctionsMapping(config); neither backend is contacted yet.
Construct ==
    /\ boot_pc \in {"idle", "mapping"}
    /\ am_pc = "construct"
    /\ am_pc' = IF check THEN "put" ELSE "return"
    /\ UNCHANGED <<backend, fault, check, kv, kv0, expect, am_outcome>>
    /\ UNCHANGED notMapping

\* db.put('test', '1')
CheckPut ==
    /\ boot_pc \in {"idle", "mapping"}
    /\ am_pc = "put"
    /\ IF fault = "unreachable"
       THEN /\ am_pc' = "ended"
            /\ am_outcome' = Raised("backend error")
            /\ UNCHANGED <<kv, expect>>
       ELSE /\ am_pc' = "has"
            /\ kv' = IF fault = "put_lost" THEN kv
                     ELSE set_value(backend, kv, "test", PyStr("1"))
            /\ expect' = SetItem(expect, "test", PyStr("1"))
            /\ UNCHANGED am_outcome
    /\ UNCHANGED <<backend, fault, check, kv0>>
    /\ UNCHANGED notMapping

\* assert db.has('test') is True
CheckHas ==
    /\ boot_pc \in {"idle", "mapping"}
    /\ am_pc = "has"
    /\ IF has_value(backend, kv, "test") = TRUE
       THEN /\ am_pc' = "get"
            /\ UNCHANGED am_outcome
       ELSE /\ am_pc' = "ended"
            /\ am_outcome' = Raised("AssertionError")
    /\ UNCHANGED <<backend, fault, check, kv, kv0, expect>>
    /\ UNCHANGED notMapping

\* assert db.get('test') == '1'
CheckGet ==
    /\ boot_pc \in {"idle", "mapping"}
    /\ am_pc = "get"
    /\ LET got == IF fault = "get_wrong" THEN PyNone
                  ELSE mapping_get(backend, kv, "test")
       IN  IF got = PyStr("1")
           THEN /\ am_pc' = "delete"
                /\ UNCHANGED am_outcome
           ELSE /\ am_pc' = "ended"
                /\ am_outcome' = Raised("AssertionError")
    /\ UNCHANGED <<backend, fault, check, kv, kv0, expect>>
    /\ UNCHANGED notMapping

\* db.delete('test')
CheckDelete ==
    /\ boot_pc \in {"idle", "mapping"}
    /\ am_pc = "delete"
    /\ am_pc' = "has_not"
    /\ kv' = IF fault = "delete_lost" THEN kv
             ELSE mapping_delete(backend, kv, "test")
    /\ expect' = Without(expect, "test")
    /\ UNCHANGED <<backend, fault, check, kv0, am_outcome>>
    /\ UNCHANGED notMapping

\* assert db.has('test') is False
CheckHasNot ==
    /\ boot_pc \in {"idle", "mapping"}
    /\ am_pc = "has_not"
    /\ IF has_value(backend, kv, "test") = FALSE
       THEN /\ am_pc' = "return"
            /\ UNCHANGED am_outcome
       ELSE /\ am_pc' = "ended"
            /\ am_outcome' = Raised("AssertionError")
    /\ UNCHANGED <<backend, fault, check, kv, kv0, expect>>
    /\ UNCHANGED notMapping

\* return db
ReturnMapping ==
    /\ boot_pc \in {"idle", "mapping"}
    /\ am_pc = "return"
    /\ am_pc' = "ended"
    /\ am_outcome' = Returned
    /\ UNCHANGED <<backend, fault, check, kv, kv0, expect>>
    /\ UNCHANGED notMapping

\* A later AuctionsMapping.put(key, value) on the returned mapping.
MappingPutValue ==
    /\ am_outcome = Returned
    /\ fault = "none"
    /\ \E key \in Keys, value \in Values :
          /\ kv' = set_value(backend, kv, key, value)
          /\ expect' = SetItem(expect, key, value)
    /\ UNCHANGED <<backend, fault, check, kv0, am_pc, am_outcome>>
    /\ UNCHANGED notMapping

\* A later AuctionsMapping.delete(key) of a key that was put.
MappingDelete ==
    /\ am_outcome = Returned
    /\ fault = "none"
    /\ \E key \in DOMAIN kv :
          /\ kv' = mapping_delete(backend, kv, key)
          /\ expect' = Without(expect, key)
    /\ UNCHANGED <<backend, fault, check, kv0, am_pc, am_outcome>>
    /\ UNCHANGED notMapping

MappingNext ==
    \/ Construct
    \/ CheckPut
    \/ CheckHas
    \/ CheckGet
    \/ CheckDelete
    \/ CheckHasNot
    \/ ReturnMapping
    \/ MappingPutValue
    \/ MappingDelete

-----------------------------------------------------------------------------
(* prepare_couchdb, called on its own (boot_pc = "idle") or by init_clients *)

DbNames == {"convoy", "lots"}

\* The requests prepare_couchdb sends to the server.
CouchRequests == {"contains", "create", "getitem"}

\* What a request can raise: a socket error, or an error answer of the
\* server.
CouchErrors == {"socket.error", "Unauthorized", "ServerError"}

NoFault == [at |-> "none", kind |-> "none"]

CouchFaults == {NoFault} \cup [at : CouchRequests, kind : CouchErrors]

\* except error as e: ... raise ConfigError(e.strerror); `error` is
\* socket.error, anything else leaves the try block as it is.
ExceptError(kind) == IF kind = "socket.error" THEN "ConfigError" ELSE kind

CouchIdle ==
    /\ server = {}
    /\ db_name = "convoy"
    /\ couch_fault = NoFault
    /\ couch_pc = "idle"
    /\ couch_outcome = NoEnd

CouchInit ==
    /\ server \in SUBSET DbNames
    /\ db_name \in DbNames
    /\ couch_fault \in CouchFaults
    /\ couch_pc = "contains"
    /\ couch_outcome = NoEnd

\* A request of the try block fails: the except clause decides what leaves.
CouchRaise ==
    /\ couch_pc' = "ended"
    /\ couch_outcome' = Raised(ExceptError(couch_fault.kind))
    /\ UNCHANGED server

\* server = Server(couch_url, ...); if db_name not in server:
Contains ==
    /\ boot_pc \in {"idle", "couchdb"}
    /\ couch_pc = "contains"
    /\ IF couch_fault.at = "contains"
       THEN CouchRaise
       ELSE /\ couch_pc' = IF db_name \notin server THEN "create"
                           ELSE "getitem"
            /\ UNCHANGED <<server, couch_outcome>>
    /\ UNCHANGED <<db_name, couch_fault>>
    /\ UNCHANGED notCouch

\* db = server.create(db_name)
Create ==
    /\ boot_pc \in {"idle", "couchdb"}
    /\ couch_pc = "create"
    /\ IF couch_fault.at = "create"
       THEN CouchRaise
       ELSE /\ server' = server \cup {db_name}
            /\ couch_pc' = "return"
            /\ UNCHANGED couch_outcome
    /\ UNCHANGED <<db_name, couch_fault>>
    /\ UNCHANGED notCouch

\* db = server[db_name]
GetItem ==
    /\ boot_pc \in {"idle", "couchdb"}
    /\ couch_pc = "getitem"
    /\ IF couch_fault.at = "getitem"
       THEN CouchRaise
       ELSE /\ couch_pc' = "return"
            /\ UNCHANGED <<server, couch_outcome>>
    /\ UNCHANGED <<db_name, couch_fault>>
    /\ UNCHANGED notCouch

\* return db
ReturnDb ==
    /\ boot_pc \in {"idle", "couchdb"}
    /\ couch_pc = "return"
    /\ couch_pc' = "ended"
    /\ couch_outcome' = Returned
    /\ UNCHANGED <<server, db_name, couch_fault>>
    /\ UNCHANGED notCouch

CouchNext ==
    \/ Contains
    \/ Create
    \/ GetItem
    \/ ReturnDb

-----------------------------------------------------------------------------
(* init_clients *)

Sections == {"auctions", "lots", "assets", "contracts"}

ClientKey(section) == section \o "_client"

ClientKeys == {ClientKey(x) : x \in Sections}

\* The resources init_clients can be asked to build.
Resources == ClientKeys \cup {"couchdb", "auctions_mapping"}

NoOutcome == [kind |-> "none", exc |-> "none"]

\* The exception a failing client construction raises.
Failure(resource) == "error of " \o resource

BootIdle ==
    /\ config = {}
    /\ failing = {}
    /\ boot_pc = "idle"
    /\ todo = {}
    /\ clients_from_config = EmptyDict
    /\ exceptions = <<>>
    /\ checks = <<>>
    /\ boot_outcome = NoOutcome

\* The configuration and the configured clients whose construction raises.
\* The database server and the mapping backend start as CouchInit and
\* MappingInit say, here with the database "convoy", two kinds of error and
\* a store that holds 'test' at most; the self-check is asked for
\* (check=True).
BootInit ==
    /\ config \in SUBSET Sections
    /\ failing \in SUBSET {ClientKey(x) : x \in config}
    /\ check
    /\ db_name = "convoy"
    /\ server \subseteq {db_name}
    /\ couch_fault.kind \in {"none", "socket.error", "Unauthorized"}
    /\ DOMAIN kv \subseteq {"test"}
    /\ boot_pc = "start"
    /\ todo = {}
    /\ clients_from_config = EmptyDict
    /\ exceptions = <<>>
    /\ checks = <<>>
    /\ boot_outcome = NoOutcome

\* sections = [section for section in sections if config.get(section)];
\* clients_from_config keeps the entries whose section is among them;
\* exceptions = []
BootStart ==
    /\ boot_pc = "start"
    /\ clients_from_config' =
          [k \in {ClientKey(x) : x \in Sections \cap config} |-> "config"]
    /\ todo' = {ClientKey(x) : x \in Sections \cap config}
    /\ exceptions' = <<>>
    /\ boot_pc' = "clients"
    /\ UNCHANGED <<config, failing, checks, boot_outcome>>
    /\ UNCHANGED notBoot

\* One pass of `for key, item in clients_from_config.items()`: the try
\* block, then LOGGER.check.  The order of the keys is the dict's.
AttemptClient ==
    /\ boot_pc = "clients"
    /\ \E key \in todo :
          /\ todo' = todo \ {key}
          /\ IF key \in failing
             THEN /\ exceptions' = Append(exceptions, Failure(key))
                  /\ checks' = Append(checks, <<key, "failed">>)
                  /\ UNCHANGED clients_from_config
             ELSE /\ clients_from_config' =
                        SetItem(clients_from_config, key, "client")
                  /\ checks' = Append(checks, <<key, "ok">>)
                  /\ UNCHANGED exceptions
    /\ UNCHANGED <<config, failing, boot_pc, boot_outcome>>
    /\ UNCHANGED notBoot

\* if not hasattr(clients_from_config['auctions_client'], 'ds_client'):
\* the subscript raises KeyError when the mapping has no such key.
DsCheck ==
    /\ boot_pc = "clients"
    /\ todo = {}
    /\ IF "auctions_client" \in DOMAIN clients_from_config
       THEN /\ boot_pc' = "couchdb"
            /\ UNCHANGED boot_outcome
       ELSE /\ boot_pc' = "ended"
            /\ boot_outcome' = [kind |-> "raised", exc |-> "KeyError"]
    /\ UNCHANGED <<config, failing, todo, clients_from_config, exceptions,
                   checks>>
    /\ UNCHANGED notBoot

\* The end of one guarded construction, whose call has ended with
\* outcome: the except or else branch, then the LOGGER.check report.
Attempt(resource, outcome, handle_key, next_pc) ==
    /\ IF outcome.kind = "raised"
       THEN /\ exceptions' = Append(exceptions, outcome.exc)
            /\ checks' = Append(checks, <<resource, "failed">>)
            /\ UNCHANGED clients_from_config
       ELSE /\ clients_from_config' =
                  SetItem(clients_from_config, handle_key, "handle")
            /\ checks' = Append(checks, <<resource, "ok">>)
            /\ UNCHANGED exceptions
    /\ boot_pc' = next_pc
    /\ UNCHANGED <<config, failing, todo, boot_outcome>>
    /\ UNCHANGED notBoot

\* # CouchDB check: prepare_couchdb has run (Contains, Create, GetItem,
\* ReturnDb) and its outcome is recorded.
AttemptCouch ==
    /\ boot_pc = "couchdb"
    /\ couch_pc = "ended"
    /\ Attempt("couchdb", couch_outcome, "db", "mapping")

\* # Processed auctions mapping check: prepare_auctions_mapping(check=True)
\* has run (Construct to ReturnMapping) and its outcome is recorded.
AttemptMapping ==
    /\ boot_pc = "mapping"
    /\ am_pc = "ended"
    /\ Attempt("auctions_mapping", am_outcome, "auctions_mapping", "finish")

\* if exceptions: raise exceptions[0]; return clients_from_config
Finish ==
    /\ boot_pc = "finish"
    /\ boot_pc' = "ended"
    /\ boot_outcome' = IF exceptions # <<>>
                       THEN [kind |-> "raised", exc |-> exceptions[1]]
                       ELSE [kind |-> "returned", exc |-> "none"]
    /\ UNCHANGED <<config, failing, todo, clients_from_config, exceptions,
                   checks>>
    /\ UNCHANGED notBoot

BootNext ==
    \/ BootStart
    \/ AttemptClient
    \/ DsCheck
    \/ Contains
    \/ Create
    \/ GetItem
    \/ ReturnDb
    \/ AttemptCouch
    \/ Construct
    \/ CheckPut
    \/ CheckHas
    \/ CheckGet
    \/ CheckDelete
    \/ CheckHasNot
    \/ ReturnMapping
    \/ AttemptMapping
    \/ Finish

-----------------------------------------------------------------------------
(* Properties of continuous_changes_feed *)

\* Rows of the current batch that the for loop has not yielded yet.
Remaining ==
    IF pc = "for" THEN Len(data.results) + 1 - idx
    ELSE IF pc = "suspended" THEN Len(data.results) - idx
    ELSE 0

\* The documents of the changes 1..n of the log that pass the filter.
RECURSIVE PassingDocs(_, _)
PassingDocs(l, n) ==
    IF n = 0 THEN <<>>
    ELSE PassingDocs(l, n - 1)
         \o (IF l[n] # NoDoc THEN <<Munch(Doc(l[n]))>> ELSE <<>>)

\* A step of the generator itself (not of the store, the signal handler or
\* downstream processing).
FeedStep == pc' # pc \/ idx' # idx

\* C1: in one run the items yielded are exactly the documents of the batches
\* received, in the order of the batches and of the rows inside each batch,
\* up to the rows of the current batch still to come; nothing is dropped,
\* repeated or reordered, and the batches together hold every passing change
\* up to the cursor exactly once.
C1_YieldsEveryDocOnceInOrder ==
    /\ Remaining \in 0..Len(fetched)
    /\ yielded = SubSeq(fetched, 1, Len(fetched) - Remaining)
    /\ fetched = PassingDocs(log, last_seq_id)

C1_Witness ==
    /\ pc = "poll"
    /\ Len(yielded) = 3
    /\ yielded = fetched
    /\ Len(data.results) = 1

\* C2 (as stated): a document whose id is marked present in the
\* AuctionsMapping is never yielded.
C2_MarkedNeverYielded ==
    [][(pc = "for" /\ pc' = "suspended")
         => ~has(auctions_mapping, yielded'[Len(yielded')].id)]_vars

\* C2 (amended): the generator does not consult the AuctionsMapping; a row
\* whose id is marked present is yielded like any other, and the generator
\* leaves the mapping as it is.
C2_MarkedStillYielded ==
    [][(/\ pc = "for"
        /\ idx <= Len(data.results)
        /\ has(auctions_mapping, data.results[idx].id)
        /\ FeedStep)
         => /\ yielded' = Append(yielded, Munch(data.results[idx].doc))
            /\ pc' = "suspended"
            /\ auctions_mapping' = auctions_mapping]_vars

C2_Witness ==
    /\ run = 2
    /\ pc = "suspended"
    /\ last_marked
    /\ since_used = 0

\* C3: with the signal set when the empty batch is examined, the generator
\* ends without sleeping and without another poll, and stays ended.
C3_KillOnEmptyBatchEnds ==
    [][/\ (pc = "idle_check" /\ kill_now /\ FeedStep)
            => (pc' = "done" /\ slept' = slept /\ data' = data
                /\ last_seq_id' = last_seq_id)
       /\ (pc = "done" /\ run' = run)
            => (pc' = "done" /\ slept' = slept /\ data' = data
                /\ since_used' = since_used)]_vars

C3_Witness ==
    /\ pc = "done"
    /\ polled
    /\ data.results = <<>>
    /\ kill_pos.pc \in {"start", "poll"}
    /\ slept = <<>>

\* C4: with the signal set when the caller asks for the item after the last
\* row of a non-empty batch, the generator ends without another poll.
C4_KillAfterBatchEnds ==
    [][/\ (pc = "for" /\ idx > Len(data.results) /\ kill_now /\ FeedStep)
            => (pc' = "done" /\ data' = data /\ since_used' = since_used
                /\ yielded' = yielded)
       /\ (pc = "done" /\ run' = run)
            => (pc' = "done" /\ data' = data /\ ret_seq' = ret_seq)]_vars

C4_Witness ==
    /\ pc = "done"
    /\ Len(data.results) = 2
    /\ kill_pos = [pc |-> "suspended", idx |-> 2]
    /\ yielded = fetched

\* C5: the signal never cuts a batch short: with the signal set inside a
\* batch the next row is still yielded, and a run that has ended has yielded
\* every document of every batch it received.
C5_BatchDrainedBeforeKill ==
    [][/\ (kill_now /\ pc = "for" /\ idx <= Len(data.results) /\ FeedStep)
            => (pc' = "suspended"
                /\ yielded' = Append(yielded, Munch(data.results[idx].doc)))
       /\ (kill_now /\ pc = "suspended" /\ FeedStep)
            => (pc' = "for" /\ idx' = idx + 1 /\ data' = data)
       /\ pc' = "done" => yielded' = fetched']_vars

C5_Witness ==
    /\ pc = "done"
    /\ Len(data.results) = 2
    /\ kill_pos = [pc |-> "for", idx |-> 1]
    /\ Len(yielded) = 2

\* C6: the first poll of a run uses since = 0; after every poll the cursor
\* is the last_seq of that poll; the next poll uses exactly that cursor.
C6_CursorDiscipline ==
    [][/\ (pc = "poll" /\ pc' \in {"for", "idle_check"})
            => /\ since_used' = (IF polled THEN ret_seq ELSE 0)
               /\ ret_seq' = data'.last_seq
       /\ polled' => last_seq_id' = ret_seq']_vars

C6_Witness ==
    /\ run = 2
    /\ polled
    /\ since_used > 0
    /\ fetched = <<>>
    /\ last_seq_id = since_used

-----------------------------------------------------------------------------
(* Properties of push_filter_doc *)

\* C7: a call that finds the stored predicate equal to the rendered one
\* writes nothing; of two consecutive calls with identical track-type lists
\* the second writes nothing, and when the first found the filter document
\* absent or holding another predicate the two perform one db.save in total.
C7_PushFilterDocIdempotent ==
    [][/\ (/\ last_call'.outcome = "returned"
           /\ last_call'.before_feed
                 = RenderFilter(last_call'.auctions_types))
            => (last_call'.saved = <<>> /\ store' = store)
       /\ (/\ last_call.outcome = "returned"
           /\ last_call'.outcome = "returned"
           /\ EffectiveLists(last_call.auctions_types)
                 = EffectiveLists(last_call'.auctions_types))
            => /\ last_call'.saved = <<>>
               /\ (last_call.before_feed
                      # RenderFilter(last_call.auctions_types))
                     => Len(last_call.saved) + Len(last_call'.saved) = 1
      ]_vars

C7_Witness ==
    /\ call_hist.n = 2
    /\ call_hist.same
    /\ call_hist.prev_outcome = "returned"
    /\ call_hist.prev_saved = 1
    /\ last_call.outcome = "returned"
    /\ last_call.saved = <<>>

\* C8: a call whose basic or loki list differs from the lists of the call
\* before it performs exactly one overwrite of the filter document, a call
\* with the same lists performs none, and after every call that returns the
\* stored 'convoy_feed' entry is the predicate rendered from its lists.
C8_PushFilterDocDetectsDrift ==
    [][/\ last_call'.outcome = "returned"
            => StoredFeed(store') = RenderFilter(last_call'.auctions_types)
       /\ (/\ last_call.outcome = "returned"
           /\ last_call'.outcome = "returned"
           /\ EffectiveLists(last_call.auctions_types)
                 # EffectiveLists(last_call'.auctions_types))
            => /\ Len(last_call'.saved) = 1
               /\ last_call'.saved[1]["_id"] = FILTER_DOC_ID
               /\ store' # store
       /\ (/\ last_call.outcome = "returned"
           /\ last_call'.outcome = "returned"
           /\ EffectiveLists(last_call.auctions_types)
                 = EffectiveLists(last_call'.auctions_types))
            => (Len(last_call'.saved) = 0 /\ store' = store)
      ]_vars

C8_Witness ==
    /\ call_hist.n = 2
    /\ ~call_hist.same
    /\ call_hist.prev_outcome = "returned"
    /\ last_call.outcome = "returned"
    /\ Len(last_call.saved) = 1
    /\ EffectiveLists(last_call.auctions_types)[1] = <<"dgfOtherAssets">>
    /\ StoredFeed(store) = RenderFilter(last_call.auctions_types)

-----------------------------------------------------------------------------
(* Properties of retry_on_error *)

\* C9: retry_on_error returns true exactly for an exception of the
\* EXCEPTIONS family whose status code is >= 500 or one of 409, 412, 429
\* (so true for 500, 502, 503, 409, 412, 429 in the family, false for 400,
\* 403, 404 and false outside the family), and the call changes nothing.
C9_RetryOnError ==
    [][retry_result' # retry_result
         => /\ retry_result'
                 = <<(/\ exception.cls \in EXCEPTIONS
                      /\ (\/ exception.status_code >= 500
                          \/ exception.status_code \in {409, 412, 429}))>>
            /\ (/\ exception.cls \in EXCEPTIONS
                /\ exception.status_code \in {500, 502, 503, 409, 412, 429})
                 => retry_result' = <<TRUE>>
            /\ exception.status_code \in {400, 403, 404}
                 => retry_result' = <<FALSE>>
            /\ exception.cls \notin EXCEPTIONS
                 => retry_result' = <<FALSE>>
            /\ exception' = exception
            /\ UNCHANGED notRetry]_vars

C9_Witness ==
    /\ retry_result = <<TRUE>>
    /\ exception = [cls |-> "RequestFailed", status_code |-> 429]

-----------------------------------------------------------------------------
(* Properties of init_clients *)

\* The resources a configuration asks init_clients to build.
Wanted == {ClientKey(x) : x \in config} \cup {"couchdb", "auctions_mapping"}

Reported(resource) ==
    \E i \in 1..Len(checks) :
        checks[i][1] = resource /\ checks[i][2] \in {"ok", "failed"}

\* C10: whatever the configuration and whichever constructions fail, no
\* exception leaves init_clients before every configured client, the
\* document store and the auctions mapping have been attempted and reported.
C10_AllAttemptedBeforeRaise ==
    boot_outcome.kind = "raised" => \A r \in Wanted : Reported(r)

\* What the failed construction of a resource raised.
ExceptionOf(resource) ==
    IF resource = "couchdb" THEN couch_outcome.exc
    ELSE IF resource = "auctions_mapping" THEN am_outcome.exc
    ELSE Failure(resource)

\* The failures of the attempts made so far, in the order of the attempts.
RECURSIVE FailuresIn(_)
FailuresIn(reports) ==
    IF reports = <<>> THEN <<>>
    ELSE (IF Head(reports)[2] = "failed"
          THEN <<ExceptionOf(Head(reports)[1])>> ELSE <<>>)
         \o FailuresIn(Tail(reports))

\* C11: once init_clients has ended after a failed construction, what it
\* raised is the failure of the first attempt that failed, every wanted
\* resource has been attempted by then, and the clients mapping is returned
\* only when no construction failed.
C11_FirstFailureRaisedAfterAll ==
    boot_pc = "ended" =>
        /\ FailuresIn(checks) # <<>> =>
              /\ boot_outcome = [kind |-> "raised",
                                 exc |-> Head(FailuresIn(checks))]
              /\ \A r \in Wanted : Reported(r)
        /\ boot_outcome.kind = "returned" =>
              /\ Wanted \cap failing = {}
              /\ couch_outcome = Returned
              /\ am_outcome = Returned

-----------------------------------------------------------------------------
(* Further properties of continuous_changes_feed *)

\* C15: a failure of db.changes is not retried: it leaves the generator at
\* once, the failed poll moves neither the cursor nor the items handed over,
\* and for the rest of the run the generator polls and yields no more.
C15_PollFailurePropagates ==
    /\ [](failed => pc = "error" /\ ~waiting)
    /\ [][(failed' /\ ~failed) =>
             /\ pc = "poll"
             /\ UNCHANGED <<last_seq_id, data, yielded, fetched, polled,
                            since_used, ret_seq>>]_vars
    /\ [][(failed /\ run' = run) =>
             UNCHANGED <<pc, last_seq_id, data, yielded, fetched, polled,
                         since_used, ret_seq, kill_polls, kill_yields>>]_vars

\* db.changes has raised at a later poll of a run, after items were handed
\* over and the cursor had moved.
C15_Witness ==
    /\ failed
    /\ pc = "error"
    /\ Len(yielded) > 0
    /\ last_seq_id > 0

\* C16: once kill_now is set, the generator issues at most one further
\* poll, yields at most the rows of one batch and starts no sleep, and, as
\* long as the caller keeps asking, it ends.
C16_BoundedShutdown ==
    /\ [](kill_now => kill_polls <= 1 /\ kill_yields <= Len(data.results))
    /\ [][(kill_now /\ pc' = "sleep") => pc = "sleep"]_vars
    /\ (kill_now ~> pc \in {"done", "error"})

\* The signal came before a poll that returned a full batch; the batch was
\* handed over and the generator ended.
C16_Witness ==
    /\ kill_now
    /\ pc = "done"
    /\ kill_polls = 1
    /\ kill_yields = Limit

\* C17: the generator sleeps for the timeout (10 by default) once between
\* two polls exactly when the earlier poll returned no rows and the signal
\* was not set at the check; after a batch with rows and the signal not set
\* the next poll follows with no sleep.
C17_IdlePolicy ==
    /\ [](Timeout = 10 /\ Len(slept) <= 1)
    /\ [][(pc = "idle_check" /\ FeedStep) =>
             pc' = IF kill_now THEN "done" ELSE "sleep"]_vars
    /\ [][(pc' = "sleep" /\ pc # "sleep") =>
             pc = "idle_check" /\ data.results = <<>> /\ ~kill_now]_vars
    /\ [][(pc = "sleep" /\ FeedStep) =>
             pc' = "poll" /\ slept' = <<Timeout>>]_vars
    /\ [][(pc = "for" /\ idx > Len(data.results) /\ ~kill_now /\ FeedStep) =>
             pc' = "poll" /\ slept' = <<>>]_vars
    /\ [][(pc = "poll" /\ polled /\ FeedStep) =>
             slept = IF data.results = <<>> THEN <<Timeout>> ELSE <<>>]_vars

\* The generator stands before its next poll after an empty batch and one
\* sleep.
C17_Witness ==
    /\ pc = "poll"
    /\ polled
    /\ data.results = <<>>
    /\ slept = <<Timeout>>
    /\ ~kill_now

\* C18 as stated: when kill_now is set while the generator sleeps, the
\* generator ends when the sleep ends, without another poll.
C18_KillInSleepEndsWithoutPoll ==
    kill_pos.pc = "sleep" => kill_polls = 0

\* C18, amended: the signal is looked at before the idle sleep only.  When
\* it is set during the sleep, the generator polls once more when the sleep
\* ends, and ends at the check that follows that poll.
C18_KillInSleepPollsOnce ==
    /\ [](kill_pos.pc = "sleep" =>
            /\ kill_polls <= 1
            /\ pc \in {"done", "error"} => kill_polls = 1)
    /\ [][(kill_now /\ pc = "sleep" /\ FeedStep) => pc' = "poll"]_vars

\* The signal came during the sleep and the generator has ended after one
\* more poll.
C18_Witness ==
    /\ kill_pos.pc = "sleep"
    /\ pc = "done"
    /\ kill_polls = 1

\* C20: the items fetched and not yet handed over are the rows left of the
\* one current batch, and a poll is issued only inside a request of the
\* caller and only when every fetched item has been handed over.
C20_BackPressure ==
    /\ [](Len(fetched) - Len(yielded) = Remaining)
    /\ [](pc \in {"poll", "for", "idle_check", "sleep"} <=> waiting)
    /\ [][(pc = "poll" /\ FeedStep) => waiting /\ yielded = fetched]_vars

\* A second batch has been fetched inside a request, after the first one
\* was handed over.
C20_Witness ==
    /\ pc = "for"
    /\ waiting
    /\ since_used > 0
    /\ Len(yielded) > 0
    /\ Len(fetched) > Len(yielded)

-----------------------------------------------------------------------------
(* Further properties of push_filter_doc *)

\* The document new differs from old in its 'convoy_feed' filter at most.
SameButConvoyFeed(old, new) ==
    /\ DOMAIN new = DOMAIN old
    /\ \A field \in DOMAIN old \ {"filters"} : new[field] = old[field]
    /\ DOMAIN new["filters"] = DOMAIN old["filters"] \cup {"convoy_feed"}
    /\ \A name \in DOMAIN old["filters"] \ {"convoy_feed"} :
          new["filters"][name] = old["filters"][name]

\* C19: a call of push_filter_doc writes no document but the filter
\* document; what it saves there is the document it fetched (or the empty
\* default) with every field and every other named filter as it was; and a
\* call that finds the rendered predicate stored leaves the store as it is.
C19_PushFilterDocFrame ==
    [][/\ store'[OtherDocId] = store[OtherDocId]
       /\ Len(last_call'.saved) <= 1
       /\ last_call'.saved = <<>> => store' = store
       /\ last_call'.saved # <<>> =>
             /\ last_call'.saved[1]["_id"] = FILTER_DOC_ID
             /\ store'[FILTER_DOC_ID] = last_call'.saved[1]
             /\ SameButConvoyFeed(
                   db_get(store, FILTER_DOC_ID,
                          [_id |-> FILTER_DOC_ID, filters |-> EmptyDict]),
                   last_call'.saved[1])
       /\ (/\ last_call'.outcome = "returned"
           /\ last_call'.before_feed
                 = RenderFilter(last_call'.auctions_types))
            => store' = store
      ]_vars

\* A call has overwritten a filter document that held another named filter
\* and another field, in a store that holds another document.
C19_Witness ==
    /\ last_call # NoCall
    /\ last_call.saved # <<>>
    /\ last_call.before_feed # None
    /\ "other_filter" \in DOMAIN last_call.saved[1]["filters"]
    /\ "language" \in DOMAIN last_call.saved[1]
    /\ store[OtherDocId] # Absent

-----------------------------------------------------------------------------
(* Properties of AuctionsMapping and prepare_auctions_mapping *)

\* The self-check has returned the mapping and left the store as it found
\* it, but for 'test', which is not held.
SelfCheckLeavesStore ==
    /\ am_outcome' = Returned
    /\ "test" \notin DOMAIN kv'
    /\ \A key \in Keys \ {"test"} :
          /\ (key \in DOMAIN kv') = (key \in DOMAIN kv0)
          /\ key \in DOMAIN kv0 => kv'[key] = kv0[key]

C13_FailedSelfCheckRaisesConfigError ==
    (check /\ fault # "none" /\ am_pc = "ended") =>
        am_outcome = Raised("ConfigError")

-----------------------------------------------------------------------------
(* Properties of prepare_couchdb *)

\* C14: whatever a request of prepare_couchdb raises, a socket error or an
\* error answer of the server, what leaves is ConfigError, and no database
\* handle is returned.
C14_StoreErrorsBecomeConfigError ==
    (couch_pc = "ended" /\ couch_fault.at \in CouchRequests
       /\ couch_outcome # Returned) =>
        couch_outcome = Raised("ConfigError")

-----------------------------------------------------------------------------
(* Specifications, one per component *)

InitFeed ==
    FeedInit /\ FilterIdle /\ RetryIdle /\ BootIdle /\ MappingIdle /\ CouchIdle

SpecFeed == InitFeed /\ [][FeedNext]_vars

\* One run whose caller keeps asking for items: the generator's code runs
\* on whenever it is asked, a sleep ends and db.changes answers or raises.
SpecFeedFair == InitFeed /\ [][RunNext]_vars /\ WF_vars(GeneratorStep)

InitFilter ==
    FeedInit /\ FilterInit /\ RetryIdle /\ BootIdle /\ MappingIdle /\ CouchIdle

SpecFilter == InitFilter /\ [][FilterNext]_vars

InitRetry ==
    FeedInit /\ FilterIdle /\ RetryInit /\ BootIdle /\ MappingIdle /\ CouchIdle

SpecRetry == InitRetry /\ [][RetryNext]_vars

InitBoot ==
    FeedInit /\ FilterIdle /\ RetryIdle /\ MappingInit /\ CouchInit /\ BootInit

SpecBoot == InitBoot /\ [][BootNext]_vars

InitMapping ==
    FeedInit /\ FilterIdle /\ RetryIdle /\ BootIdle /\ MappingInit /\ CouchIdle

SpecMapping == InitMapping /\ [][MappingNext]_vars

InitCouch ==
    FeedInit /\ FilterIdle /\ RetryIdle /\ BootIdle /\ MappingIdle /\ CouchInit

SpecCouch == InitCouch /\ [][CouchNext]_vars

=============================================================================
